---- MODULE Spec2Model ----
(***************************************************************************)
(* timelane: scalers between the lanes of time (year, month, day, hour,    *)
(* minute, second, millisecond, microsecond, nanosecond).                  *)
(*                                                                         *)
(* Mark is isize.  The model fixes the 32-bit build of the crate (the      *)
(* narrowest pointer width for which src/lib.rs compiles, since the        *)
(* literal 400 * 365 does not fit 16 bits).  Every arithmetic operation    *)
(* of the source is modelled with its machine semantics: a checked value   *)
(* is a record [v, o] where v is the two's-complement (wrapping) result    *)
(* and o records that some operation on the way overflowed.  A build with  *)
(* overflow checks panics exactly when o is set, a build without them      *)
(* continues with v.                                                       *)
(***************************************************************************)
EXTENDS Integers, Sequences, FiniteSets

\* Mark::MAX and Mark::MIN of `pub type Mark = isize` on a 32-bit target.
MarkMax == 2147483647

MarkMin == (-MarkMax) - 1

(***************************************************************************)
(* Machine arithmetic on Mark.                                             *)
(***************************************************************************)

\* a + b leaves the Mark range.
AddOvf(a, b) ==
    \/ b > 0 /\ a > MarkMax - b
    \/ b < 0 /\ a < MarkMin - b

\* a + b modulo 2^32, as a signed value.
WrapAdd(a, b) ==
    IF b > 0 /\ a > MarkMax - b
    THEN ((a - MarkMax) - 1) + ((b - MarkMax) - 1)
    ELSE IF b < 0 /\ a < MarkMin - b
    THEN ((a + MarkMax) + 1) + ((b + MarkMax) + 1)
    ELSE a + b

\* a - b leaves the Mark range.
SubOvf(a, b) ==
    \/ b < 0 /\ a > MarkMax + b
    \/ b > 0 /\ a < MarkMin + b

\* a - b modulo 2^32, as a signed value.
WrapSub(a, b) ==
    IF b < 0 /\ a > MarkMax + b
    THEN ((a - MarkMax) - 1) - ((b + MarkMax) + 1)
    ELSE IF b > 0 /\ a < MarkMin + b
    THEN ((a + MarkMax) + 1) - ((b - MarkMax) - 1)
    ELSE a - b

\* a * k leaves the Mark range (k is a positive literal of the source).
MulOvf(a, k) ==
    \/ a > MarkMax \div k
    \/ a < (MarkMin \div k) + (IF MarkMin % k = 0 THEN 0 ELSE 1)

\* a * k modulo 2^32, as a signed value: the product of the 16-bit halves of
\* a with the bytes of k, so that no partial product leaves 31 bits.
WrapMul(a, k) ==
    IF ~MulOvf(a, k) THEN a * k
    ELSE LET al == a % 65536
             ah == (a \div 65536) % 65536
             kh == k \div 65536
             kb0 == k % 256
             kb1 == (k % 65536) \div 256
             t0 == al * kb0
             t1 == al * kb1
             losum == (t0 % 65536) + (t1 % 256) * 256
             lo == losum % 65536
             hi == ((t0 \div 65536) + (t1 \div 256) + (losum \div 65536)
                    + ((ah * kb0) % 65536) + ((ah * kb1) % 256) * 256
                    + ((al * kh) % 65536)) % 65536
         IN IF hi >= 32768 THEN (hi - 65536) * 65536 + lo ELSE hi * 65536 + lo

\* Rust's a / b for b > 0: the quotient truncated towards zero.
TruncDiv(a, b) ==
    IF a >= 0 THEN a \div b
    ELSE (a \div b) + (IF a % b = 0 THEN 0 ELSE 1)

\* Rust's a % b for b > 0: the remainder with the sign of a.
TruncRem(a, b) ==
    IF a >= 0 \/ a % b = 0 THEN a % b ELSE (a % b) - b

\* A checked value that no operation has overflowed.
K(x) == [v |-> x, o |-> FALSE]

\* c with the overflow of a value that decided the control flow.
Taint(c, d) == [v |-> c.v, o |-> c.o \/ d.o]

add(c, d) == [v |-> WrapAdd(c.v, d.v), o |-> c.o \/ d.o \/ AddOvf(c.v, d.v)]

sub(c, d) == [v |-> WrapSub(c.v, d.v), o |-> c.o \/ d.o \/ SubOvf(c.v, d.v)]

mul(c, k) == [v |-> WrapMul(c.v, k), o |-> c.o \/ MulOvf(c.v, k)]

div(c, k) == [v |-> TruncDiv(c.v, k), o |-> c.o]

rem(c, k) == [v |-> TruncRem(c.v, k), o |-> c.o]

(***************************************************************************)
(* Rounding primitives.                                                    *)
(***************************************************************************)

\* divide_towards_negative_infinity without its adjustment: the truncating
\* quotient alone.  C14_ExactRounding tells it from the code.
divide_towards_negative_infinity_truncating(a, b) == div(a, b)

\* divide_towards_negative_infinity with the sign of the adjustment slipped:
\* a negative remainder rounds the quotient up.  C10_Monotone tells it from
\* the code.
divide_towards_negative_infinity_sign_slip(a, b) ==
    add(div(a, b), K(IF rem(a, b).v < 0 THEN 1 ELSE 0))

divide_towards_negative_infinity(a, b) ==
    sub(div(a, b), K(IF rem(a, b).v < 0 THEN 1 ELSE 0))

\* divide_towards_positive_infinity without its adjustment: the truncating
\* quotient alone.  C12_FixedRatioRoundTrip tells it from the code.
divide_towards_positive_infinity_truncating(a, b) == div(a, b)

divide_towards_positive_infinity(a, b) ==
    add(div(a, b), K(IF rem(a, b).v > 0 THEN 1 ELSE 0))

(***************************************************************************)
(* Constants and tables.                                                   *)
(***************************************************************************)

EPOCH_YEAR == 2000

\* The tables are indexed from 0 in the source, from 1 here.
ZMONTH_STARTS == <<0, 31, 59, 90, 120, 151, 181, 212, 243, 273, 304, 334>>

ZMONTH_STARTS_LEAP_YEAR == <<0, 31, 60, 91, 121, 152, 182, 213, 244, 274, 305, 335>>

\* 97 + 400 * 365: the days of one 400-year cycle.
DaysPerCycle == 97 + 400 * 365

(***************************************************************************)
(* Leap-day counter.                                                       *)
(***************************************************************************)

RECURSIVE leap_days_before_year_guard_96(_)
\* leap_days_before_year with 96 for the 97 leap days of a cycle in its
\* Mark::MIN branch.  C16_LeapDayPeriod tells it from the code.
leap_days_before_year_guard_96(year) ==
    IF year.v = MarkMin
    THEN sub(leap_days_before_year_guard_96(add(year, K(400))), K(96))
    ELSE LET years_count == sub(year, K(1))
         IN add(sub(divide_towards_negative_infinity(years_count, 4),
                    divide_towards_negative_infinity(years_count, 100)),
                divide_towards_negative_infinity(years_count, 400))

RECURSIVE leap_days_before_year_no_400(_)
\* leap_days_before_year without the 400-year rule: every century year is a
\* normal year.  C2_LeapDayStep tells it from the code.
leap_days_before_year_no_400(year) ==
    IF year.v = MarkMin
    THEN sub(leap_days_before_year_no_400(add(year, K(400))), K(97))
    ELSE LET years_count == sub(year, K(1))
         IN sub(divide_towards_negative_infinity(years_count, 4),
                divide_towards_negative_infinity(years_count, 100))

\* The argument of the recursive call of leap_days_before_year, shifted
\* downwards: year - 400, which leaves the range on Mark::MIN.
\* C21_Terminates tells it from the code.
leap_days_before_year_shifted_down(year) == sub(year, K(400))

\* The argument of the recursive call of leap_days_before_year: year + 400.
leap_days_before_year_shifted_year(year) == add(year, K(400))

RECURSIVE leap_days_before_year(_)
leap_days_before_year(year) ==
    IF year.v = MarkMin
    THEN sub(leap_days_before_year(leap_days_before_year_shifted_year(year)), K(97))
    ELSE LET years_count == sub(year, K(1))
         IN add(sub(divide_towards_negative_infinity(years_count, 4),
                    divide_towards_negative_infinity(years_count, 100)),
                divide_towards_negative_infinity(years_count, 400))

(***************************************************************************)
(* Up-scalers.                                                             *)
(***************************************************************************)

year_to_month(year) ==
    LET zyear == sub(year, K(EPOCH_YEAR))
    IN add(mul(zyear, 12), K(1))

\* month_to_day counting the leap day of a year from April instead of March
\* (zmonth_in_year > 2 for >= 2).  C3_MonthLength tells it from the code.
month_to_day_from_april(month) ==
    LET zmonth == sub(month, K(1))
        zmonth_in_year ==
            add(rem(zmonth, 12), K(IF rem(zmonth, 12).v < 0 THEN 12 ELSE 0))
        zyear == divide_towards_negative_infinity(zmonth, 12)
        zleap_year == add(zyear, K(IF zmonth_in_year.v > 2 THEN 1 ELSE 0))
        leap_days == leap_days_before_year(add(zleap_year, K(EPOCH_YEAR)))
        base_leap_days == leap_days_before_year(K(EPOCH_YEAR))
    IN add(add(sub(add(mul(zyear, 365),
                       Taint(K(ZMONTH_STARTS[zmonth_in_year.v + 1]), zmonth_in_year)),
                   base_leap_days),
               leap_days),
           K(1))

month_to_day(month) ==
    LET zmonth == sub(month, K(1))
        zmonth_in_year ==
            add(rem(zmonth, 12), K(IF rem(zmonth, 12).v < 0 THEN 12 ELSE 0))
        zyear == divide_towards_negative_infinity(zmonth, 12)
        zleap_year == add(zyear, K(IF zmonth_in_year.v >= 2 THEN 1 ELSE 0))
        leap_days == leap_days_before_year(add(zleap_year, K(EPOCH_YEAR)))
        base_leap_days == leap_days_before_year(K(EPOCH_YEAR))
    IN add(add(sub(add(mul(zyear, 365),
                       Taint(K(ZMONTH_STARTS[zmonth_in_year.v + 1]), zmonth_in_year)),
                   base_leap_days),
               leap_days),
           K(1))

day_to_hour(day) ==
    LET zday == sub(day, K(1))
    IN mul(zday, 24)

hour_to_minute(hour) == mul(hour, 60)

\* year_month_to_minute without the `- 1`: the month taken as counted from 0.
\* C15_LeapSecondTable tells it from the code.
year_month_to_minute_from_zero(year, month) ==
    hour_to_minute(day_to_hour(month_to_day(add(month, year_to_month(year)))))

year_month_to_minute(year, month) ==
    LET zmonth == sub(month, K(1))
    IN hour_to_minute(day_to_hour(month_to_day(add(zmonth, year_to_month(year)))))

(***************************************************************************)
(* State.                                                                  *)
(***************************************************************************)

\* LEAP_SECONDS_MARKS: the const table, evaluated once when the crate is
\*             built and never written afterwards.
\* lane, mark: the mark the caller holds and the lane it is on.
\* op, arg:    the last scaler called and the mark it was called on.
\* st:         "ok", or what the last call's overflow did: "panic" in a build
\*             with overflow checks, "wrapped" in a build without.
VARIABLES LEAP_SECONDS_MARKS, lane, mark, op, arg, st

vars == <<LEAP_SECONDS_MARKS, lane, mark, op, arg, st>>

(***************************************************************************)
(* Leap-second table.                                                      *)
(***************************************************************************)

\* The initialiser of LEAP_SECONDS_MARKS; indexed from 1 here.
LEAP_SECONDS_MARKS_value ==
    <<year_month_to_minute(K(1972), K(7)).v,
       year_month_to_minute(K(1973), K(1)).v,
       year_month_to_minute(K(1974), K(1)).v,
       year_month_to_minute(K(1975), K(1)).v,
       year_month_to_minute(K(1976), K(1)).v,
       year_month_to_minute(K(1977), K(1)).v,
       year_month_to_minute(K(1978), K(1)).v,
       year_month_to_minute(K(1979), K(1)).v,
       year_month_to_minute(K(1980), K(1)).v,
       year_month_to_minute(K(1981), K(7)).v,
       year_month_to_minute(K(1982), K(7)).v,
       year_month_to_minute(K(1983), K(7)).v,
       year_month_to_minute(K(1985), K(7)).v,
       year_month_to_minute(K(1988), K(1)).v,
       year_month_to_minute(K(1990), K(1)).v,
       year_month_to_minute(K(1991), K(1)).v,
       year_month_to_minute(K(1992), K(7)).v,
       year_month_to_minute(K(1993), K(7)).v,
       year_month_to_minute(K(1994), K(7)).v,
       year_month_to_minute(K(1996), K(1)).v,
       year_month_to_minute(K(1997), K(7)).v,
       year_month_to_minute(K(1999), K(1)).v,
       year_month_to_minute(K(2006), K(1)).v,
       year_month_to_minute(K(2009), K(1)).v,
       year_month_to_minute(K(2012), K(7)).v,
       year_month_to_minute(K(2015), K(7)).v,
       year_month_to_minute(K(2017), K(1)).v >>

RECURSIVE ScanLeapSeconds_inclusive(_, _)
\* The loop with <= for <: an entry equal to the minute is not counted.
\* C9_LeapSecondCount tells it from the code.
ScanLeapSeconds_inclusive(n, minute) ==
    IF n > 0 /\ minute <= LEAP_SECONDS_MARKS[n]
    THEN ScanLeapSeconds_inclusive(n - 1, minute)
    ELSE n

RECURSIVE ScanLeapSeconds(_, _)
\* The while loop of leap_seconds_before_minute, from the count n downwards.
ScanLeapSeconds(n, minute) ==
    IF n > 0 /\ minute < LEAP_SECONDS_MARKS[n]
    THEN ScanLeapSeconds(n - 1, minute)
    ELSE n

leap_seconds_before_minute(minute) ==
    LET leap_seconds == ScanLeapSeconds(Len(LEAP_SECONDS_MARKS), minute.v)
        leap_seconds_offset ==
            ScanLeapSeconds(Len(LEAP_SECONDS_MARKS),
                            year_month_to_minute(K(EPOCH_YEAR), K(1)).v)
    IN Taint(sub(K(leap_seconds), K(leap_seconds_offset)), minute)

\* minute_to_second without the leap seconds.  C8_MinuteLength tells it from
\* the code.
minute_to_second_no_leap(minute) == mul(minute, 60)

minute_to_second(minute) ==
    add(mul(minute, 60), leap_seconds_before_minute(minute))

(***************************************************************************)
(* Down-scalers.                                                           *)
(***************************************************************************)

\* second_to_minute without the correction pass: the estimate alone.
\* C13_MinuteBoundaryRoundTrip tells it from the code.
second_to_minute_estimate_only(second) ==
    divide_towards_negative_infinity(second, 60)

second_to_minute(second) ==
    LET estimate == divide_towards_negative_infinity(second, 60)
    IN divide_towards_negative_infinity(
           sub(second, leap_seconds_before_minute(estimate)), 60)

second_to_minute_up(second) ==
    LET estimate == divide_towards_positive_infinity(second, 60)
    IN divide_towards_positive_infinity(
           sub(second, leap_seconds_before_minute(estimate)), 60)

minute_to_hour(minute) == divide_towards_negative_infinity(minute, 60)

minute_to_hour_up(minute) == divide_towards_positive_infinity(minute, 60)

hour_to_day(hour) == add(divide_towards_negative_infinity(hour, 24), K(1))

hour_to_day_up(hour) == add(divide_towards_positive_infinity(hour, 24), K(1))

\* day_to_zyear_and_days, one definition per stretch of its statements.  Each
\* takes the locals that are live where its stretch begins (zyear, leap_days
\* and zstart_of_year are `let mut`) and seen, whether an operation before it
\* overflowed.  The result is the source's tuple, each number a checked
\* value, with o the overflow of anything the call computed.

\* let is_leap_year = ...; (zyear, zday - zstart_of_year, is_leap_year)
zyear_and_days_result(zyear, leap_days, next_leap_days, zdays_in_year, seen) ==
    [zyear |-> zyear,
     zdays_in_year |-> zdays_in_year,
     is_leap_year |-> next_leap_days.v > leap_days.v,
     o |-> seen \/ zyear.o \/ next_leap_days.o \/ zdays_in_year.o]

\* From after the `if`, with the year settled.
zyear_and_days_of_year(zday, zyear, leap_days, zstart_of_year, seen) ==
    zyear_and_days_result(
        zyear,
        leap_days,
        sub(leap_days_before_year(add(add(zyear, K(1)), K(EPOCH_YEAR))),
            leap_days_before_year(K(EPOCH_YEAR))),
        sub(zday, zstart_of_year),
        seen \/ zstart_of_year.o)

\* zstart_of_year = zyear * 365 + leap_days, inside the `if`.
zyear_and_days_restart(zday, zyear, leap_days, seen) ==
    zyear_and_days_of_year(zday, zyear, leap_days,
                           add(mul(zyear, 365), leap_days), seen)

\* leap_days = ..., inside the `if`, after zyear -= 1.
zyear_and_days_back(zday, zyear, seen) ==
    zyear_and_days_restart(
        zday, zyear,
        sub(leap_days_before_year(add(zyear, K(EPOCH_YEAR))),
            leap_days_before_year(K(EPOCH_YEAR))),
        seen)

\* if zstart_of_year > zday { zyear -= 1; ... }
zyear_and_days_correct(zday, zyear, leap_days, zstart_of_year) ==
    IF zstart_of_year.v > zday.v
    THEN zyear_and_days_back(zday, sub(zyear, K(1)), zstart_of_year.o)
    ELSE zyear_and_days_of_year(zday, zyear, leap_days, zstart_of_year, FALSE)

\* let mut zstart_of_year = zyear * 365 + leap_days
zyear_and_days_start(zday, zyear, leap_days) ==
    zyear_and_days_correct(zday, zyear, leap_days,
                           add(mul(zyear, 365), leap_days))

\* let mut leap_days = ..., for the first guess of zyear.
zyear_and_days_guess(zday, zyear) ==
    zyear_and_days_start(
        zday, zyear,
        sub(leap_days_before_year(add(zyear, K(EPOCH_YEAR))),
            leap_days_before_year(K(EPOCH_YEAR))))

\* The first guess of zyear, from the mean length of a year over a cycle.
zyear_first_guess(zday) ==
    divide_towards_negative_infinity(
        sub(zday, mul(divide_towards_negative_infinity(zday, DaysPerCycle), 97)),
        365)

\* let mut zyear = ..., the first guess.
zyear_and_days_from(zday) == zyear_and_days_guess(zday, zyear_first_guess(zday))

\* return (zyear - 400, days_in_year, is_leap_year), in the MIN branch.
zyear_and_days_shifted(r, zyear) ==
    [zyear |-> zyear,
     zdays_in_year |-> r.zdays_in_year,
     is_leap_year |-> r.is_leap_year,
     o |-> r.o \/ zyear.o]

zyear_and_days_shift(r) == zyear_and_days_shifted(r, sub(r.zyear, K(400)))

\* The argument of the recursive call of day_to_zyear_and_days:
\* day + 97 + 400 * 365.
day_to_zyear_and_days_shifted_day(day) == add(add(day, K(97)), K(400 * 365))

RECURSIVE day_to_zyear_and_days(_)
day_to_zyear_and_days(day) ==
    IF day.v = MarkMin
    THEN zyear_and_days_shift(
             day_to_zyear_and_days(day_to_zyear_and_days_shifted_day(day)))
    ELSE zyear_and_days_from(sub(day, K(1)))

RECURSIVE ScanMonthDown(_, _, _)
\* The while loop of day_to_month; month_ends[month] of the source is
\* month_ends[month + 1] here.
ScanMonthDown(month, zdays_in_year, month_ends) ==
    IF month < Len(month_ends) /\ zdays_in_year >= month_ends[month + 1]
    THEN ScanMonthDown(month + 1, zdays_in_year, month_ends)
    ELSE month

RECURSIVE ScanMonthUp(_, _, _)
\* The while loop of day_to_month_up; month_ends[month - 1] of the source is
\* month_ends[month] here.
ScanMonthUp(month, zdays_in_year, month_ends) ==
    IF month <= Len(month_ends) /\ zdays_in_year > month_ends[month]
    THEN ScanMonthUp(month + 1, zdays_in_year, month_ends)
    ELSE month

\* day_to_month from after its first statement, r the tuple it got.
day_to_month_scan(r) ==
    Taint(add(mul(r.zyear, 12),
              K(ScanMonthDown(1, r.zdays_in_year.v,
                              IF r.is_leap_year
                              THEN ZMONTH_STARTS_LEAP_YEAR
                              ELSE ZMONTH_STARTS))),
          r)

day_to_month(day) == day_to_month_scan(day_to_zyear_and_days(day))

\* day_to_month_up from after its first statement, r the tuple it got.
day_to_month_up_scan(r) ==
    Taint(add(mul(r.zyear, 12),
              K(ScanMonthUp(1, r.zdays_in_year.v,
                            IF r.is_leap_year
                            THEN ZMONTH_STARTS_LEAP_YEAR
                            ELSE ZMONTH_STARTS))),
          r)

day_to_month_up(day) == day_to_month_up_scan(day_to_zyear_and_days(day))

RECURSIVE month_to_year_zero_based(_)
\* month_to_year without the `- 1`: month 12 falls into the next year.
\* C11_MonthToYear tells it from the code.
month_to_year_zero_based(month) ==
    IF month.v = MarkMin
    THEN sub(month_to_year_zero_based(add(month, K(12))), K(1))
    ELSE add(divide_towards_negative_infinity(month, 12), K(EPOCH_YEAR))

\* The argument of the recursive call of month_to_year: month + 12.
month_to_year_shifted_month(month) == add(month, K(12))

RECURSIVE month_to_year(_)
month_to_year(month) ==
    IF month.v = MarkMin
    THEN sub(month_to_year(month_to_year_shifted_month(month)), K(1))
    ELSE add(divide_towards_negative_infinity(sub(month, K(1)), 12), K(EPOCH_YEAR))

\* The argument of the recursive call of month_to_year_up: month + 12.
month_to_year_up_shifted_month(month) == add(month, K(12))

RECURSIVE month_to_year_up(_)
month_to_year_up(month) ==
    IF month.v = MarkMin
    THEN sub(month_to_year_up(month_to_year_up_shifted_month(month)), K(1))
    ELSE add(divide_towards_positive_infinity(sub(month, K(1)), 12), K(EPOCH_YEAR))

(***************************************************************************)
(* Subsecond scalers.                                                      *)
(***************************************************************************)

nanosecond_to_second(m) == divide_towards_negative_infinity(m, 1000000000)

nanosecond_to_second_up(m) == divide_towards_positive_infinity(m, 1000000000)

second_to_nanosecond(m) == mul(m, 1000000000)

microsecond_to_second(m) == divide_towards_negative_infinity(m, 1000000)

microsecond_to_second_up(m) == divide_towards_positive_infinity(m, 1000000)

second_to_microsecond(m) == mul(m, 1000000)

millisecond_to_second(m) == divide_towards_negative_infinity(m, 1000)

millisecond_to_second_up(m) == divide_towards_positive_infinity(m, 1000)

second_to_millisecond(m) == mul(m, 1000)

(***************************************************************************)
(* The state machine: a caller holds a mark on one lane and applies the    *)
(* scalers of that lane to it, one call after the other.                   *)
(***************************************************************************)

\* How far the inputs reach from Mark::MIN and Mark::MAX.
Edge == 200

\* How far the year inputs reach around a century year.
YearSpan == 40

\* How far the month inputs reach around a January.
MonthSpan == 30

\* How far the day inputs reach around the middle of a year.
DaySpan == 200

\* How far the hour inputs reach around hour 0.
HourSpan == 50

\* How far the minute inputs reach around minute 0 and a leap-second entry.
MinuteSpan == 3

\* How far the second inputs reach around second 0 and a leap second.
SecondSpan == 90

\* How far the subsecond inputs reach around a whole second.
SubSpan == 20

Around(c, r) == (c - r)..(c + r)

Edges == {MarkMin + i : i \in 0..Edge} \cup {MarkMax - i : i \in 0..Edge}

\* Century years on both sides of year 0 and of EPOCH_YEAR, leap (divisible
\* by 400) and normal.
CenturyYears == {-400, -100, 0, 1900, EPOCH_YEAR, 2100}

\* January of the years 1900, 1996, 2000 and 2100.
Januaries == {1 - 1200, 1 - 48, 1, 1 + 1200}

\* 2 July of the years 1600 (leap), 1900 (normal), 1999 (normal) and 2000
\* (leap): with DaySpan the whole year and the days around both of its ends.
MidYearDays == {184 - DaysPerCycle, 184 - 36524, 184 - 365, 184}

\* Minute 0 and the entries of the leap-second table.
LeapMinutes == {0} \cup {LEAP_SECONDS_MARKS[i] : i \in DOMAIN LEAP_SECONDS_MARKS}

\* Minute 0, the first and the last entry of the table, and the entries on
\* both sides of minute 0 (the last of 22 before it, the first of 5 after).
SampledLeapMinutes == {0} \cup {LEAP_SECONDS_MARKS[i] : i \in {1, 22, 23, 27}}

\* The subsecond marks per second of a subsecond lane.
PerSecond(l) ==
    CASE l = "millisecond" -> 1000
      [] l = "microsecond" -> 1000000
      [] l = "nanosecond" -> 1000000000

\* The marks a caller starts from, per lane.
Inputs(l) ==
    Edges \cup
    CASE l = "year" -> UNION {Around(c, YearSpan) : c \in CenturyYears}
      [] l = "month" -> UNION {Around(c, MonthSpan) : c \in Januaries}
      [] l = "day" -> UNION {Around(c, DaySpan) : c \in MidYearDays}
      [] l = "hour" -> Around(0, HourSpan)
      [] l = "minute" -> UNION {Around(c, MinuteSpan) : c \in LeapMinutes}
      [] l = "second" -> UNION {Around(60 * c, SecondSpan) : c \in SampledLeapMinutes}
      [] OTHER -> UNION {Around(c * PerSecond(l), SubSpan) : c \in -2..2}

Lanes == {"year", "month", "day", "hour", "minute", "second",
          "millisecond", "microsecond", "nanosecond"}

Init ==
    /\ LEAP_SECONDS_MARKS = LEAP_SECONDS_MARKS_value
    /\ lane \in Lanes
    /\ mark \in Inputs(lane)
    /\ op = "none"
    /\ arg = mark
    /\ st = "ok"

\* One call of the scaler `name`, from lane `src` to lane `dst`, with result r.
\* A chain of calls ends at the first overflow: the panic aborts it, and the
\* wrapped value is no position that the chain was heading for.
Call(name, src, dst, r) ==
    /\ lane = src
    /\ st = "ok"
    /\ op' = name
    /\ arg' = mark
    /\ UNCHANGED LEAP_SECONDS_MARKS
    /\ IF r.o
       THEN \/ st' = "panic" /\ lane' = lane /\ mark' = mark
            \/ st' = "wrapped" /\ lane' = dst /\ mark' = r.v
       ELSE st' = "ok" /\ lane' = dst /\ mark' = r.v

Call_year_to_month ==
    Call("year_to_month", "year", "month", year_to_month(K(mark)))

Call_leap_days_before_year ==
    Call("leap_days_before_year", "year", "leap_days", leap_days_before_year(K(mark)))

Call_month_to_day ==
    Call("month_to_day", "month", "day", month_to_day(K(mark)))

Call_month_to_year ==
    Call("month_to_year", "month", "year", month_to_year(K(mark)))

Call_month_to_year_up ==
    Call("month_to_year_up", "month", "year", month_to_year_up(K(mark)))

Call_day_to_hour ==
    Call("day_to_hour", "day", "hour", day_to_hour(K(mark)))

Call_day_to_month ==
    Call("day_to_month", "day", "month", day_to_month(K(mark)))

Call_day_to_month_up ==
    Call("day_to_month_up", "day", "month", day_to_month_up(K(mark)))

Call_hour_to_minute ==
    Call("hour_to_minute", "hour", "minute", hour_to_minute(K(mark)))

Call_hour_to_day ==
    Call("hour_to_day", "hour", "day", hour_to_day(K(mark)))

Call_hour_to_day_up ==
    Call("hour_to_day_up", "hour", "day", hour_to_day_up(K(mark)))

Call_minute_to_second ==
    Call("minute_to_second", "minute", "second", minute_to_second(K(mark)))

Call_minute_to_hour ==
    Call("minute_to_hour", "minute", "hour", minute_to_hour(K(mark)))

Call_minute_to_hour_up ==
    Call("minute_to_hour_up", "minute", "hour", minute_to_hour_up(K(mark)))

Call_leap_seconds_before_minute ==
    Call("leap_seconds_before_minute", "minute", "leap_seconds", leap_seconds_before_minute(K(mark)))

Call_second_to_minute ==
    Call("second_to_minute", "second", "minute", second_to_minute(K(mark)))

Call_second_to_minute_up ==
    Call("second_to_minute_up", "second", "minute", second_to_minute_up(K(mark)))

Call_second_to_millisecond ==
    Call("second_to_millisecond", "second", "millisecond", second_to_millisecond(K(mark)))

Call_second_to_microsecond ==
    Call("second_to_microsecond", "second", "microsecond", second_to_microsecond(K(mark)))

Call_second_to_nanosecond ==
    Call("second_to_nanosecond", "second", "nanosecond", second_to_nanosecond(K(mark)))

Call_millisecond_to_second ==
    Call("millisecond_to_second", "millisecond", "second", millisecond_to_second(K(mark)))

Call_millisecond_to_second_up ==
    Call("millisecond_to_second_up", "millisecond", "second", millisecond_to_second_up(K(mark)))

Call_microsecond_to_second ==
    Call("microsecond_to_second", "microsecond", "second", microsecond_to_second(K(mark)))

Call_microsecond_to_second_up ==
    Call("microsecond_to_second_up", "microsecond", "second", microsecond_to_second_up(K(mark)))

Call_nanosecond_to_second ==
    Call("nanosecond_to_second", "nanosecond", "second", nanosecond_to_second(K(mark)))

Call_nanosecond_to_second_up ==
    Call("nanosecond_to_second_up", "nanosecond", "second", nanosecond_to_second_up(K(mark)))

Next ==
    \/ Call_year_to_month
    \/ Call_leap_days_before_year
    \/ Call_month_to_day
    \/ Call_month_to_year
    \/ Call_month_to_year_up
    \/ Call_day_to_hour
    \/ Call_day_to_month
    \/ Call_day_to_month_up
    \/ Call_hour_to_minute
    \/ Call_hour_to_day
    \/ Call_hour_to_day_up
    \/ Call_minute_to_second
    \/ Call_minute_to_hour
    \/ Call_minute_to_hour_up
    \/ Call_leap_seconds_before_minute
    \/ Call_second_to_minute
    \/ Call_second_to_minute_up
    \/ Call_second_to_millisecond
    \/ Call_second_to_microsecond
    \/ Call_second_to_nanosecond
    \/ Call_millisecond_to_second
    \/ Call_millisecond_to_second_up
    \/ Call_microsecond_to_second
    \/ Call_microsecond_to_second_up
    \/ Call_nanosecond_to_second
    \/ Call_nanosecond_to_second_up

Spec == Init /\ [][Next]_vars

(***************************************************************************)
(* Reference calendar: the Gregorian rules stated on their own, with the   *)
(* mathematical floor division and non-negative modulo of TLA+.            *)
(***************************************************************************)

IsLeapYear(y) == y % 4 = 0 /\ (y % 100 # 0 \/ y % 400 = 0)

\* The length of month number i (1..12) of year y.
DaysInMonth(y, i) ==
    IF i = 2
    THEN IF IsLeapYear(y) THEN 29 ELSE 28
    ELSE IF i \in {4, 6, 9, 11} THEN 30 ELSE 31

\* The year and the month number of month mark m: mark 1 is January 2000.
YearOfMonth(m) == 2000 + ((m - 1) \div 12)

MonthNumber(m) == ((m - 1) % 12) + 1

\* The days from 1 January 2000 to 1 January of y, counted year by year.
DaysToYear(y) ==
    IF y >= 2000
    THEN 365 * (y - 2000) + Cardinality({z \in 2000..(y - 1) : IsLeapYear(z)})
    ELSE -(365 * (2000 - y) + Cardinality({z \in y..1999 : IsLeapYear(z)}))

RECURSIVE DaysToMonth(_, _)
\* The days from 1 January of y to the first of month number i of y.
DaysToMonth(y, i) ==
    IF i = 1 THEN 0 ELSE DaysToMonth(y, i - 1) + DaysInMonth(y, i - 1)

\* The minute mark of 00:00 on the first of month number i of year y.
FirstMinute(y, i) == (DaysToYear(y) + DaysToMonth(y, i)) * 24 * 60

JuneLeapYears == {1972, 1981, 1982, 1983, 1985, 1992, 1993, 1994, 1997, 2012, 2015}

DecemberLeapYears ==
    (1972..1979) \cup {1987, 1989, 1990, 1995, 1998, 2005, 2008, 2016}

\* The last minute of 30 June and of 31 December of the listed years.
LongMinutes ==
    {FirstMinute(y, 7) - 1 : y \in JuneLeapYears}
        \cup {FirstMinute(y + 1, 1) - 1 : y \in DecemberLeapYears}

\* The entries of the table, as a set.
TableMinutes == {LEAP_SECONDS_MARKS[i] : i \in DOMAIN LEAP_SECONDS_MARKS}

\* The month marks within two of the month that 4800 months per 400-year
\* cycle give for day d.
MonthsNear(d) ==
    Around((d \div DaysPerCycle) * 4800 + ((d % DaysPerCycle) * 4800) \div DaysPerCycle, 2)

\* The public scalers, by name.
Scalers ==
    {"year_to_month", "month_to_day", "month_to_year", "month_to_year_up",
     "day_to_hour", "day_to_month", "day_to_month_up", "hour_to_minute",
     "hour_to_day", "hour_to_day_up", "minute_to_second", "minute_to_hour",
     "minute_to_hour_up", "second_to_minute", "second_to_minute_up",
     "second_to_millisecond", "second_to_microsecond", "second_to_nanosecond",
     "millisecond_to_second", "millisecond_to_second_up",
     "microsecond_to_second", "microsecond_to_second_up",
     "nanosecond_to_second", "nanosecond_to_second_up"}

\* The scaler called name, applied to mark x.
ScalerAt(name, x) ==
    CASE name = "year_to_month" -> year_to_month(K(x))
      [] name = "month_to_day" -> month_to_day(K(x))
      [] name = "month_to_year" -> month_to_year(K(x))
      [] name = "month_to_year_up" -> month_to_year_up(K(x))
      [] name = "day_to_hour" -> day_to_hour(K(x))
      [] name = "day_to_month" -> day_to_month(K(x))
      [] name = "day_to_month_up" -> day_to_month_up(K(x))
      [] name = "hour_to_minute" -> hour_to_minute(K(x))
      [] name = "hour_to_day" -> hour_to_day(K(x))
      [] name = "hour_to_day_up" -> hour_to_day_up(K(x))
      [] name = "minute_to_second" -> minute_to_second(K(x))
      [] name = "minute_to_hour" -> minute_to_hour(K(x))
      [] name = "minute_to_hour_up" -> minute_to_hour_up(K(x))
      [] name = "second_to_minute" -> second_to_minute(K(x))
      [] name = "second_to_minute_up" -> second_to_minute_up(K(x))
      [] name = "second_to_millisecond" -> second_to_millisecond(K(x))
      [] name = "second_to_microsecond" -> second_to_microsecond(K(x))
      [] name = "second_to_nanosecond" -> second_to_nanosecond(K(x))
      [] name = "millisecond_to_second" -> millisecond_to_second(K(x))
      [] name = "millisecond_to_second_up" -> millisecond_to_second_up(K(x))
      [] name = "microsecond_to_second" -> microsecond_to_second(K(x))
      [] name = "microsecond_to_second_up" -> microsecond_to_second_up(K(x))
      [] name = "nanosecond_to_second" -> nanosecond_to_second(K(x))
      [] name = "nanosecond_to_second_up" -> nanosecond_to_second_up(K(x))

(***************************************************************************)
(* Properties.  After a call, op is the scaler, arg its input, and mark    *)
(* its result when st = "ok".                                              *)
(***************************************************************************)

\* C1: no public scaler overflows, panics or wraps, whatever mark of the
\* Mark range it is called on, Mark::MIN and Mark::MAX included.
\* Violated: year_to_month(Mark::MAX) and day_to_month(Mark::MIN + 1)
\* overflow.
C1_NoOverflow == op \in Scalers => st = "ok"

\* C2: for every year y with y and y + 1 representable,
\* leap_days_before_year(y + 1) - leap_days_before_year(y) is 0 or 1, and it
\* is 1 exactly when y is a Gregorian leap year (divisible by 4 and not by
\* 100, or divisible by 400), negative years and year 0 included.
C2_LeapDayStep ==
    (op = "leap_days_before_year" /\ arg < MarkMax) =>
        LET next == leap_days_before_year(K(arg + 1))
        IN /\ st = "ok"
           /\ ~next.o
           /\ next.v - mark \in {0, 1}
           /\ next.v - mark = 1 <=> IsLeapYear(arg)

\* A negative century year that is a leap year: the three rules and the
\* floor division of a negative count all take part.
C2_Witness ==
    /\ op = "leap_days_before_year"
    /\ st = "ok"
    /\ arg < 0
    /\ arg % 400 = 0
    /\ leap_days_before_year(K(arg + 1)).v = mark + 1

\* C3: for every month mark m whose computation does not overflow,
\* month_to_day(m + 1) - month_to_day(m) is the Gregorian length of month m:
\* 31, 30, or for February 29 in a leap year and 28 otherwise, the year
\* being 2000 + floor((m - 1) / 12).
C3_MonthLength ==
    (op = "month_to_day" /\ st = "ok" /\ arg < MarkMax) =>
        LET next == month_to_day(K(arg + 1))
        IN ~next.o =>
               next.v - mark = DaysInMonth(YearOfMonth(arg), MonthNumber(arg))

\* February of a leap year before the epoch.
C3_Witness ==
    /\ op = "month_to_day"
    /\ st = "ok"
    /\ arg < 0
    /\ MonthNumber(arg) = 2
    /\ month_to_day(K(arg + 1)).v - mark = 29

\* Month m holds day d: month_to_day(m) <= d < month_to_day(m + 1), both
\* computed without overflow.
MonthHoldsDay(m, d) ==
    LET first == month_to_day(K(m))
        next == month_to_day(K(m + 1))
    IN ~first.o /\ ~next.o /\ first.v <= d /\ d < next.v

\* Month m is the first month starting at or after day d:
\* month_to_day(m - 1) < d <= month_to_day(m), both computed without overflow.
MonthFollowsDay(m, d) ==
    LET before == month_to_day(K(m - 1))
        first == month_to_day(K(m))
    IN ~before.o /\ ~first.o /\ before.v < d /\ d <= first.v

\* C4: day_to_month is the floor inverse of month_to_day: for every month
\* mark m and every day mark d with month_to_day(m) <= d < month_to_day(m + 1),
\* day_to_month(d) = m.
\* Violated: month_to_day(-70555325) = Mark::MIN + 10 and
\* month_to_day(-70555324) = Mark::MIN + 41, but day_to_month(Mark::MIN + 10)
\* overflows.
C4_FloorInverse ==
    op = "day_to_month" =>
        \A m \in MonthsNear(arg) :
            MonthHoldsDay(m, arg) => st = "ok" /\ mark = m

\* C5: day_to_month_up is the ceiling inverse of month_to_day: for every day
\* mark d, day_to_month_up(d) is the smallest month mark m with
\* month_to_day(m) >= d, and day_to_month_up(month_to_day(m)) = m for every m.
\* Violated: month_to_day(-70555325) = Mark::MIN + 10, but
\* day_to_month_up(Mark::MIN + 10) overflows.
C5_CeilingInverse ==
    op = "day_to_month_up" =>
        \A m \in MonthsNear(arg) :
            /\ MonthFollowsDay(m, arg) => st = "ok" /\ mark = m
            /\ (~month_to_day(K(m)).o /\ month_to_day(K(m)).v = arg) =>
                   st = "ok" /\ mark = m

\* C6: second_to_minute is exact: for every second mark s, m =
\* second_to_minute(s) satisfies minute_to_second(m) <= s <
\* minute_to_second(m + 1), also when s is the 61st second of a minute that
\* ends at a table entry, before and after the epoch.
\* Violated: second -31536001 is the 61st second of minute -525601 (the last
\* of 1998), and second_to_minute(-31536001) = -525600.
C6_ExactFloor ==
    op = "second_to_minute" =>
        /\ st = "ok"
        /\ LET first == minute_to_second(K(mark))
               next == minute_to_second(K(mark + 1))
           IN (~first.o /\ ~next.o) => (first.v <= arg /\ arg < next.v)

\* C7: second_to_minute_up is an exact ceiling: for every second mark s,
\* minute_to_second(second_to_minute_up(s)) - s lies in [0, 60], and
\* second_to_minute_up(s) is the smallest minute m with
\* minute_to_second(m) >= s.
\* Violated: second_to_minute_up(189388741) = 3156479, and
\* minute_to_second(3156479) = 189388740.
C7_ExactCeiling ==
    op = "second_to_minute_up" =>
        /\ st = "ok"
        /\ LET first == minute_to_second(K(mark))
               before == minute_to_second(K(mark - 1))
           IN /\ ~first.o => first.v - arg \in 0..60
              /\ ~before.o => before.v < arg

\* C8: minute_to_second(m + 1) - minute_to_second(m) is 61 when m + 1 is an
\* entry of LEAP_SECONDS_MARKS and 60 otherwise, and the 61-second minutes
\* are exactly the last minute of 30 June and of 31 December of the listed
\* years.  The difference is taken wherever both marks are computed without
\* overflow.
C8_MinuteLength ==
    /\ {t - 1 : t \in TableMinutes} = LongMinutes
    /\ (op = "minute_to_second" /\ st = "ok" /\ arg < MarkMax) =>
           LET next == minute_to_second(K(arg + 1))
           IN ~next.o =>
                  /\ next.v - mark = IF arg + 1 \in TableMinutes THEN 61 ELSE 60
                  /\ next.v - mark = 61 <=> arg \in LongMinutes

\* The last minute of 30 June 1972, the first 61-second minute.
C8_Witness ==
    /\ op = "minute_to_second"
    /\ st = "ok"
    /\ arg = FirstMinute(1972, 7) - 1
    /\ minute_to_second(K(arg + 1)).v - mark = 61

\* The entries of the table that are at or before minute m.
EntriesUpTo(m) == {i \in DOMAIN LEAP_SECONDS_MARKS : LEAP_SECONDS_MARKS[i] <= m}

\* C9: leap_seconds_before_minute(m) is the number of table entries <= m
\* minus the number of entries <= minute 0; it is 0 at minute 0, -22 before
\* the first entry (Mark::MIN included), 5 at or after the last entry, and
\* always within [-22, 5].
C9_LeapSecondCount ==
    op = "leap_seconds_before_minute" =>
        /\ st = "ok"
        /\ mark = Cardinality(EntriesUpTo(arg)) - Cardinality(EntriesUpTo(0))
        /\ arg = 0 => mark = 0
        /\ arg < LEAP_SECONDS_MARKS[1] => mark = -22
        /\ arg >= LEAP_SECONDS_MARKS[Len(LEAP_SECONDS_MARKS)] => mark = 5
        /\ mark \in -22..5

\* The minute of a table entry before the epoch: the entry itself counts.
C9_Witness ==
    /\ op = "leap_seconds_before_minute"
    /\ st = "ok"
    /\ arg = LEAP_SECONDS_MARKS[22]
    /\ mark = 0

\* The marks to compare mark a with: its successor, and of Mark::MIN, 0 and
\* Mark::MAX those on the given side of a.
MarksAfter(a) ==
    IF a = MarkMax THEN {} ELSE {a + 1} \cup {b \in {0, MarkMax} : b > a}

MarksBefore(a) ==
    IF a = MarkMin THEN {} ELSE {a - 1} \cup {b \in {MarkMin, 0} : b < a}

\* C10: every scaler is non-decreasing: for each public scaler f and all
\* marks a <= b in the range where f does not overflow, f(a) <= f(b).
C10_Monotone ==
    (op \in Scalers /\ st = "ok") =>
        /\ \A b \in MarksAfter(arg) :
               LET r == ScalerAt(op, b) IN ~r.o => mark <= r.v
        /\ \A b \in MarksBefore(arg) :
               LET r == ScalerAt(op, b) IN ~r.o => r.v <= mark

\* The first second after a 61-second minute before the epoch: it rounds up
\* to its own minute, the second after it to the next.
C10_Witness ==
    /\ op = "second_to_minute_up"
    /\ st = "ok"
    /\ arg < 0
    /\ mark \in TableMinutes
    /\ second_to_minute_up(K(arg + 1)).v = mark + 1

\* floor((m - 1) / 12) and ceil((m - 1) / 12) of unbounded arithmetic, from
\* the quotient and the non-negative remainder of m itself, so that nothing
\* leaves the integers of the checker at m = Mark::MIN.
FloorOfPrevious12(m) == (m \div 12) - (IF m % 12 = 0 THEN 1 ELSE 0)

CeilOfPrevious12(m) == (m \div 12) + (IF m % 12 >= 2 THEN 1 ELSE 0)

\* C11: for every month mark m, Mark::MIN included, month_to_year(m) =
\* floor((m - 1) / 12) + EPOCH_YEAR and month_to_year_up(m) =
\* ceil((m - 1) / 12) + EPOCH_YEAR; month_to_year and month_to_year_up give
\* y back on year_to_month(y); months 1..12 map down to EPOCH_YEAR and months
\* 2..13 map up to EPOCH_YEAR + 1.
C11_MonthToYear ==
    /\ op = "month_to_year" =>
           /\ st = "ok"
           /\ mark = FloorOfPrevious12(arg) + EPOCH_YEAR
           /\ arg \in 1..12 => mark = EPOCH_YEAR
    /\ op = "month_to_year_up" =>
           /\ st = "ok"
           /\ mark = CeilOfPrevious12(arg) + EPOCH_YEAR
           /\ arg \in 2..13 => mark = EPOCH_YEAR + 1
    /\ (op = "year_to_month" /\ st = "ok") =>
           /\ month_to_year(K(mark)) = K(arg)
           /\ month_to_year_up(K(mark)) = K(arg)

\* The guarded call: month_to_year on Mark::MIN.
C11_Witness ==
    /\ op = "month_to_year"
    /\ st = "ok"
    /\ arg = MarkMin
    /\ mark = FloorOfPrevious12(MarkMin) + EPOCH_YEAR

\* The fixed-ratio lane pairs: the up-scaler, the floor and the ceiling
\* down-scaler, and the fine marks per coarse mark.
FixedRatioPairs ==
    {[up |-> "day_to_hour", down |-> "hour_to_day",
      down_up |-> "hour_to_day_up", ratio |-> 24],
     [up |-> "hour_to_minute", down |-> "minute_to_hour",
      down_up |-> "minute_to_hour_up", ratio |-> 60],
     [up |-> "second_to_millisecond", down |-> "millisecond_to_second",
      down_up |-> "millisecond_to_second_up", ratio |-> 1000],
     [up |-> "second_to_microsecond", down |-> "microsecond_to_second",
      down_up |-> "microsecond_to_second_up", ratio |-> 1000000],
     [up |-> "second_to_nanosecond", down |-> "nanosecond_to_second",
      down_up |-> "nanosecond_to_second_up", ratio |-> 1000000000]}

\* C12: for each fixed-ratio lane pair, down(up(c)) = c = down_up(up(c)) for
\* every coarse mark c whose up-scaling does not overflow, and for every fine
\* mark f, up(down(f)) <= f <= up(down_up(f)) with f - up(down(f)) < ratio
\* and up(down_up(f)) - f < ratio wherever up does not overflow.
C12_FixedRatioRoundTrip ==
    \A p \in FixedRatioPairs :
        /\ (op = p.up /\ st = "ok") =>
               /\ ScalerAt(p.down, mark) = K(arg)
               /\ ScalerAt(p.down_up, mark) = K(arg)
        /\ op = p.down =>
               /\ st = "ok"
               /\ LET fine == ScalerAt(p.up, mark)
                  IN ~fine.o => (fine.v <= arg /\ arg - fine.v < p.ratio)
        /\ op = p.down_up =>
               /\ st = "ok"
               /\ LET fine == ScalerAt(p.up, mark)
                  IN ~fine.o => (arg <= fine.v /\ fine.v - arg < p.ratio)

\* A negative hour inside a day, rounded up: day one is hour zero, so the
\* result is a day at or below day 1 that starts after the hour.
C12_Witness ==
    /\ op = "hour_to_day_up"
    /\ st = "ok"
    /\ arg < 0
    /\ arg % 24 # 0
    /\ day_to_hour(K(mark)).v > arg

\* C13: on minute boundaries the minute/second scalers round-trip exactly:
\* for every minute mark m whose second mark does not overflow,
\* second_to_minute(minute_to_second(m)) = m and
\* second_to_minute_up(minute_to_second(m)) = m, whether the minute before
\* has 60 or 61 seconds.
C13_MinuteBoundaryRoundTrip ==
    (op = "minute_to_second" /\ st = "ok") =>
        /\ second_to_minute(K(mark)) = K(arg)
        /\ second_to_minute_up(K(mark)) = K(arg)

\* The start of the minute after a 61-second minute before the epoch.
C13_Witness ==
    /\ op = "minute_to_second"
    /\ st = "ok"
    /\ arg \in TableMinutes
    /\ arg < 0
    /\ mark - minute_to_second(K(arg - 1)).v = 61

\* The divisors that the scalers pass to the rounding primitives.
Divisors == {4, 12, 24, 60, 100, 365, 400, DaysPerCycle, 1000, 1000000, 1000000000}

\* floor(a / b) and ceil(a / b) of unbounded arithmetic, for b > 0.
Floor(a, b) == a \div b

Ceil(a, b) == (a \div b) + (IF a % b = 0 THEN 0 ELSE 1)

\* C14: for every representable a, Mark::MIN included, and every positive
\* divisor b used by the scalers, divide_towards_negative_infinity(a, b) =
\* floor(a / b) and divide_towards_positive_infinity(a, b) = ceil(a / b),
\* with no intermediate overflow.  a is the mark a scaler was called on; the
\* scalers that return the quotient itself are checked on their result.
C14_ExactRounding ==
    /\ op # "none" =>
           \A b \in Divisors :
               /\ divide_towards_negative_infinity(K(arg), b) = K(Floor(arg, b))
               /\ divide_towards_positive_infinity(K(arg), b) = K(Ceil(arg, b))
    /\ op = "minute_to_hour" => st = "ok" /\ mark = Floor(arg, 60)
    /\ op = "minute_to_hour_up" => st = "ok" /\ mark = Ceil(arg, 60)
    /\ op = "millisecond_to_second" => st = "ok" /\ mark = Floor(arg, 1000)
    /\ op = "millisecond_to_second_up" => st = "ok" /\ mark = Ceil(arg, 1000)
    /\ op = "microsecond_to_second" => st = "ok" /\ mark = Floor(arg, 1000000)
    /\ op = "microsecond_to_second_up" => st = "ok" /\ mark = Ceil(arg, 1000000)
    /\ op = "nanosecond_to_second" => st = "ok" /\ mark = Floor(arg, 1000000000)
    /\ op = "nanosecond_to_second_up" => st = "ok" /\ mark = Ceil(arg, 1000000000)

\* Mark::MIN divided by 60: the remainder is negative and the quotient is
\* adjusted.
C14_Witness ==
    /\ op = "minute_to_hour"
    /\ st = "ok"
    /\ arg = MarkMin
    /\ mark = TruncDiv(MarkMin, 60) - 1

\* 00:00 on 1 January and on 1 July of the years of the leap-second record.
HalfYearStarts == {FirstMinute(y, i) : y \in 1972..2017, i \in {1, 7}}

\* C15: LEAP_SECONDS_MARKS has exactly 27 entries in strictly increasing
\* order, each the first minute of January or July of its year; exactly 22
\* entries are negative and 5 are positive, and no two entries are adjacent
\* minutes.
C15_LeapSecondTable ==
    /\ Len(LEAP_SECONDS_MARKS) = 27
    /\ \A i \in 1..(Len(LEAP_SECONDS_MARKS) - 1) :
           /\ LEAP_SECONDS_MARKS[i] < LEAP_SECONDS_MARKS[i + 1]
           /\ LEAP_SECONDS_MARKS[i] + 1 < LEAP_SECONDS_MARKS[i + 1]
    /\ \A i \in DOMAIN LEAP_SECONDS_MARKS : LEAP_SECONDS_MARKS[i] \in HalfYearStarts
    /\ Cardinality({i \in DOMAIN LEAP_SECONDS_MARKS : LEAP_SECONDS_MARKS[i] < 0}) = 22
    /\ Cardinality({i \in DOMAIN LEAP_SECONDS_MARKS : LEAP_SECONDS_MARKS[i] > 0}) = 5

\* The scan of the table has run on a minute between its last negative and
\* its first positive entry.
C15_Witness ==
    /\ op = "leap_seconds_before_minute"
    /\ st = "ok"
    /\ LEAP_SECONDS_MARKS[22] < arg
    /\ arg < LEAP_SECONDS_MARKS[23]
    /\ LEAP_SECONDS_MARKS[22] = FirstMinute(1999, 1)
    /\ LEAP_SECONDS_MARKS[23] = FirstMinute(2006, 1)

\* floor((y - 1) / b) of unbounded arithmetic for b > 0, from the quotient
\* and the non-negative remainder of y itself.
FloorOfPrevious(y, b) == (y \div b) - (IF y % b = 0 THEN 1 ELSE 0)

\* floor((y-1)/4) - floor((y-1)/100) + floor((y-1)/400), unbounded.
LeapDaysClosedForm(y) ==
    (FloorOfPrevious(y, 4) - FloorOfPrevious(y, 100)) + FloorOfPrevious(y, 400)

\* C16: leap_days_before_year(y + 400) = leap_days_before_year(y) + 97 for
\* every year y with y and y + 400 representable; leap_days_before_year at
\* Mark::MIN equals the closed form of unbounded arithmetic, without
\* overflow; leap_days_before_year(1) = 0 and years <= 0 give negative
\* counts.
C16_LeapDayPeriod ==
    op = "leap_days_before_year" =>
        /\ st = "ok"
        /\ mark = LeapDaysClosedForm(arg)
        /\ arg <= MarkMax - 400 =>
               leap_days_before_year(K(arg + 400)) = K(mark + 97)
        /\ arg = 1 => mark = 0
        /\ arg <= 0 => mark < 0

\* The guarded call: leap_days_before_year on Mark::MIN, one cycle below
\* the year it recurses on.
C16_Witness ==
    /\ op = "leap_days_before_year"
    /\ st = "ok"
    /\ arg = MarkMin
    /\ leap_days_before_year(K(MarkMin + 400)).v = mark + 97

\* The triple r of day_to_zyear_and_days is the decomposition of day d:
\* 0 <= days < length of the year, is_leap tells a Gregorian leap year, and
\* d - 1 = 365 * zyear + (leap days from EPOCH_YEAR to the year) + days.
\* The equation is stated on d - (1 + leap days + days), a multiple of 365,
\* which stays within the integers of the checker.
DecomposesDay(r, d) ==
    LET year_leap_days ==
            leap_days_before_year(K(r.zyear.v + EPOCH_YEAR)).v
                - leap_days_before_year(K(EPOCH_YEAR)).v
        rest == d - (1 + year_leap_days + r.zdays_in_year.v)
    IN /\ r.zdays_in_year.v >= 0
       /\ r.zdays_in_year.v < 365 + (IF r.is_leap_year THEN 1 ELSE 0)
       /\ r.is_leap_year <=> IsLeapYear(r.zyear.v + EPOCH_YEAR)
       /\ rest % 365 = 0
       /\ rest \div 365 = r.zyear.v

\* The first guess that day_to_zyear_and_days makes for day d, as a year
\* offset of d: on Mark::MIN it guesses for the day one cycle later.
FirstGuessFor(d) ==
    IF d = MarkMin
    THEN zyear_first_guess(K((d + DaysPerCycle) - 1)).v - 400
    ELSE zyear_first_guess(K(d - 1)).v

\* C17: day_to_zyear_and_days needs at most one downward correction of one
\* year: for every day mark d, the first estimate of the year offset is the
\* true one or the true one plus 1, and the returned triple is the
\* decomposition of d.  d is the day that day_to_month or day_to_month_up was
\* called on.
\* Violated: on day Mark::MIN + 1 the start of the year, zyear * 365 +
\* leap_days, overflows and no triple of that day is returned.
C17_OneCorrection ==
    op \in {"day_to_month", "day_to_month_up"} =>
        /\ st = "ok"
        /\ LET r == day_to_zyear_and_days(K(arg))
           IN /\ ~r.o
              /\ DecomposesDay(r, arg)
              /\ FirstGuessFor(arg) \in {r.zyear.v, r.zyear.v + 1}

\* Day Mark::MIN falls in month m: month m + 1 starts on a representable day
\* above Mark::MIN, no more than the length of month m above it, so that
\* month m starts at or below Mark::MIN.
MonthHoldsMarkMin(m) ==
    LET next == month_to_day(K(m + 1))
    IN /\ ~next.o
       /\ next.v > MarkMin
       /\ next.v - MarkMin <= DaysInMonth(YearOfMonth(m), MonthNumber(m))

\* C18: day_to_month and day_to_month_up are periodic over the Gregorian
\* cycle: for every day d with d and d + 146097 representable, the month of
\* d + 146097 is the month of d plus 4800, for both scalers, and
\* day_to_month(Mark::MIN) is, without overflow, the month that holds day
\* Mark::MIN.
\* Violated: on day Mark::MIN + 1, where d + 146097 is representable,
\* day_to_month(d) overflows.
C18_CyclePeriod ==
    op \in {"day_to_month", "day_to_month_up"} =>
        /\ arg <= MarkMax - DaysPerCycle =>
               /\ st = "ok"
               /\ ScalerAt(op, arg + DaysPerCycle) = K(mark + 4800)
        /\ (op = "day_to_month" /\ arg = MarkMin) =>
               /\ st = "ok"
               /\ MonthHoldsMarkMin(mark)

\* The down-scaler pairs of the calendar lanes, each with its up-scaler.
CalendarPairs ==
    { [down |-> "second_to_minute", down_up |-> "second_to_minute_up",
       up |-> "minute_to_second"],
      [down |-> "minute_to_hour", down_up |-> "minute_to_hour_up",
       up |-> "hour_to_minute"],
      [down |-> "hour_to_day", down_up |-> "hour_to_day_up",
       up |-> "day_to_hour"],
      [down |-> "day_to_month", down_up |-> "day_to_month_up",
       up |-> "month_to_day"],
      [down |-> "month_to_year", down_up |-> "month_to_year_up",
       up |-> "year_to_month"] }

\* Floor f and ceiling f_up of pair p bracket x: f(x) <= f_up(x) <= f(x) + 1,
\* and they agree exactly when x is the first instant of a coarser unit,
\* up(f(x)) = x.  floor is f(x).
BracketsAt(p, x, floor) ==
    LET ceiling == ScalerAt(p.down_up, x)
    IN /\ ~ceiling.o
       /\ floor <= ceiling.v
       /\ ceiling.v <= floor + 1
       /\ (floor = ceiling.v) <=> (ScalerAt(p.up, floor) = K(x))

\* C19: for every down-scaler pair (floor f, ceiling f_up) with up-scaler up
\* of the calendar lanes and every input x, f(x) <= f_up(x) <= f(x) + 1, and
\* f(x) = f_up(x) exactly when x is the first instant of a coarser unit,
\* up(f(x)) = x.
\* Violated: on a leap second before the epoch second_to_minute and
\* second_to_minute_up agree on the minute that starts one second later.
C19_FloorCeilingBracket ==
    \A p \in CalendarPairs :
        op = p.down =>
            /\ st = "ok"
            /\ BracketsAt(p, arg, mark)

\* The scalers from a finer lane to a coarser one.
FineToCoarse ==
    {"second_to_minute", "second_to_minute_up", "minute_to_hour",
     "minute_to_hour_up", "hour_to_day", "hour_to_day_up", "day_to_month",
     "day_to_month_up", "month_to_year", "month_to_year_up",
     "millisecond_to_second", "millisecond_to_second_up",
     "microsecond_to_second", "microsecond_to_second_up",
     "nanosecond_to_second", "nanosecond_to_second_up"}

\* C20: every fine-to-coarse scaler evaluates without any intermediate
\* overflow for every input of the Mark range, Mark::MIN, Mark::MIN + 1,
\* Mark::MAX - 1 and Mark::MAX included: no step of the call on arg leaves
\* the range.
\* Violated: in day_to_month(Mark::MIN + 1) the start of the year,
\* zyear * 365 + leap_days, leaves the range.
C20_DownScalersInRange ==
    op \in FineToCoarse => ~ScalerAt(op, arg).o

\* The scalers that call themselves on Mark::MIN, day_to_month and
\* day_to_month_up through day_to_zyear_and_days.
GuardedScalers ==
    {"leap_days_before_year", "month_to_year", "month_to_year_up",
     "day_to_month", "day_to_month_up"}

\* The argument that the scaler called name passes to its recursive call on
\* mark x.
ShiftedArgument(name, x) ==
    CASE name = "leap_days_before_year" ->
             leap_days_before_year_shifted_year(K(x))
      [] name = "month_to_year" -> month_to_year_shifted_month(K(x))
      [] name = "month_to_year_up" -> month_to_year_up_shifted_month(K(x))
      [] name \in {"day_to_month", "day_to_month_up"} ->
             day_to_zyear_and_days_shifted_day(K(x))

\* The table that day_to_month and day_to_month_up scan for the triple r.
MonthEndsOf(r) ==
    IF r.is_leap_year THEN ZMONTH_STARTS_LEAP_YEAR ELSE ZMONTH_STARTS

\* The month that the scan of day_to_month stops on for day d.  The scan
\* starts on month 1 and each pass adds one, so it makes month - 1 passes,
\* and it reads month_ends[1] .. month_ends[month] at most.
MonthScanDownOf(d) ==
    LET r == day_to_zyear_and_days(K(d))
    IN ScanMonthDown(1, r.zdays_in_year.v, MonthEndsOf(r))

\* The month that the scan of day_to_month_up stops on for day d: month - 1
\* passes, reading month_ends[0] .. month_ends[month - 1] at most.
MonthScanUpOf(d) ==
    LET r == day_to_zyear_and_days(K(d))
    IN ScanMonthUp(1, r.zdays_in_year.v, MonthEndsOf(r))

\* The count that a scan of leap_seconds_before_minute stops on for minute m.
\* The scan starts on the length of the table and each pass takes one off, so
\* it makes length - count passes and reads the entries count - 1 .. 26 at
\* most.
LeapScanOf(m) == ScanLeapSeconds(Len(LEAP_SECONDS_MARKS), m)

\* C21: every scaler terminates for every input: a scaler that calls itself
\* on Mark::MIN does so once, because the shifted argument is a mark above
\* Mark::MIN; the month scans of day_to_month and day_to_month_up stop after
\* at most 12 passes with every table index within 0..11; each of the two
\* scans of leap_seconds_before_minute stops after at most 27 passes with
\* every index within 0..26.  This holds as well where the call overflows.
C21_Terminates ==
    /\ (op \in GuardedScalers /\ arg = MarkMin) =>
           /\ ~ShiftedArgument(op, arg).o
           /\ ShiftedArgument(op, arg).v > MarkMin
    /\ op = "day_to_month" =>
           /\ MonthScanDownOf(arg) \in 1..12
           /\ MonthScanDownOf(arg) - 1 <= 12
    /\ op = "day_to_month_up" =>
           /\ MonthScanUpOf(arg) \in 1..13
           /\ MonthScanUpOf(arg) - 1 <= 12
    /\ op \in {"leap_seconds_before_minute", "minute_to_second"} =>
           /\ Len(LEAP_SECONDS_MARKS) = 27
           /\ LeapScanOf(arg) \in 0..27
           /\ LeapScanOf(year_month_to_minute(K(EPOCH_YEAR), K(1)).v) \in 0..27

\* Day Mark::MIN went through the recursive call of day_to_zyear_and_days,
\* on a day above Mark::MIN, and through the month scan.
C21_Witness ==
    /\ op = "day_to_month" /\ st = "ok" /\ arg = MarkMin
    /\ ShiftedArgument(op, arg) = K(MarkMin + DaysPerCycle)
    /\ MonthScanDownOf(arg) > 1
====
